---- MODULE Spec2Model ----
(***************************************************************************)
(* Datatops: a multi-tenant append-only data logger.                       *)
(*                                                                         *)
(* One DatatopsServer is bound to one backend for its lifetime: the        *)
(* JSONFileBackend (one JSON document per project plus the registry        *)
(* document projects.json) or the DynamoDBBackend (a project table and a   *)
(* data table).  Every backend method is modelled as a small program whose *)
(* steps are its storage accesses (exists probe, read, open-for-write,     *)
(* dump, get_item, put_item, query).  Spec runs each call to completion    *)
(* before the next one starts; ConcSpec interleaves the steps of calls     *)
(* made by concurrent request threads.                                     *)
(***************************************************************************)
EXTENDS Integers, Sequences, FiniteSets, TLC

\* ------------------------------------------------------------------ bounds
\* Most records the stored sequences hold together.
MaxRecords == 1
\* The clock runs over 0..MaxClock (whole seconds).
MaxClock == 1
\* Calls the request threads start altogether in ConcSpec.
MaxConcCalls == 3

\* ------------------------------------------------------------------ values
\* Python's None in a credential channel.
None == "None"

\* Project names callers use.  "projects" is an ordinary non-empty name.
Names == {"alpha", "beta", "projects"}

\* Outcomes of generate_new_user_key() and generate_new_admin_key().
UserKeys == {"uk1", "uk2"}
AdminKeys == {"a-1", "a-2"}
\* The key pairs one create_project call may draw.
KeyDraws == {<<"uk1", "a-1">>, <<"uk2", "a-2">>}

\* What a caller may put in the X-User-Key and X-Admin-Key channels.
UserKeyInputs == {None} \cup UserKeys
AdminKeyInputs == {None} \cup AdminKeys

\* What a DatatopsServer may be constructed with as project_creation_secret.
Secrets == {None, "s3cret"}
\* What a caller may put in the X-Project-Creation-Secret channel.
SecretHeaders == {None, "s3cret", "guess"}

\* Reserved field names.
DATATOPS_TIMESTAMP_KEY == "__datatops_timestamp_iso"
DATATOPS_PRIMARY_KEY == "__datatops_primary_key"

\* JSON values held by a payload field.
IntV(n) == [t |-> "int", n |-> n, s |-> ""]
StrV(s) == [t |-> "str", n |-> 0, s |-> s]
\* datetime.datetime.now().isoformat() taken at clock value n: a string.
IsoV(n) == [t |-> "iso", n |-> n, s |-> ""]

\* A DynamoDB number read back: boto3 hands every number back as a Decimal.
DecV(n) == [t |-> "dec", n |-> n, s |-> ""]

\* Python's a == b on two field values: an int equals the Decimal of the same value.
PyEq(a, b) ==
    IF a.t \in {"int", "dec"} /\ b.t \in {"int", "dec"} THEN a.n = b.n ELSE a = b

\* data[k] = v on a Python dict (a function from field names to values).
DictSet(d, k, v) == [f \in (DOMAIN d) \cup {k} |-> IF f = k THEN v ELSE d[f]]

\* d.get(k) == v
DictHas(d, k, v) == k \in DOMAIN d /\ d[k] = v

EmptyDict == [f \in {} |-> IntV(0)]

\* The request has no JSON body (request.json is None).
NoData == DictSet(EmptyDict, "__no_json_body", IntV(0))

\* Payloads callers send: two plain ones, and one that already carries the
\* reserved fields (a timestamp of its own, and another project's name).
Payloads ==
    { DictSet(EmptyDict, "x", IntV(1)),
      DictSet(DictSet(DictSet(EmptyDict, "x", IntV(2)),
                      DATATOPS_TIMESTAMP_KEY, StrV("caller")),
              DATATOPS_PRIMARY_KEY, StrV("beta")) }

\* limit: {} is None, {k} is the integer k (up to one more than can be stored).
Limits == {{}} \cup {{k} : k \in 0..(MaxRecords + 1)}

NoProject == [name |-> "", user_key |-> "", admin_key |-> ""]

\* ------------------------------------------------------------------ files
\* The stem of the registry document projects.json.
REGISTRY == "projects"

\* A path of the root directory: absent, empty (opened for writing and not
\* yet dumped) or a JSON document {key: items}.
AbsentFile == [st |-> "absent", key |-> "", items |-> <<>>]
EmptyFile == [st |-> "empty", key |-> "", items |-> <<>>]
JsonDoc(key, items) == [st |-> "json", key |-> key, items |-> items]

\* pathlib.Path.exists()
PathExists(fs, stem) == fs[stem].st # "absent"

\* _read_json(path)[key]: the items, or the exception raised.
ReadJsonKey(fs, stem, key) ==
    IF fs[stem].st = "absent" THEN [exc |-> "FileNotFoundError", items |-> <<>>]
    ELSE IF fs[stem].st = "empty" THEN [exc |-> "JSONDecodeError", items |-> <<>>]
    ELSE IF fs[stem].key # key THEN [exc |-> "KeyError", items |-> <<>>]
    ELSE [exc |-> "", items |-> fs[stem].items]

\* ------------------------------------------------------------------ results
RetPending == [kind |-> "pending", dict |-> NoProject, list |-> <<>>, exc |-> ""]
RetNone == [kind |-> "none", dict |-> NoProject, list |-> <<>>, exc |-> ""]
RetBool(b) == [kind |-> IF b THEN "true" ELSE "false", dict |-> NoProject,
               list |-> <<>>, exc |-> ""]
RetDict(d) == [kind |-> "dict", dict |-> d, list |-> <<>>, exc |-> ""]
RetList(l) == [kind |-> "list", dict |-> NoProject, list |-> l, exc |-> ""]
RetRaise(e) == [kind |-> "raise", dict |-> NoProject, list |-> <<>>, exc |-> e]
\* The route answered without calling the backend.
RetNoCall == [kind |-> "nocall", dict |-> NoProject, list |-> <<>>, exc |-> ""]
\* The create-project route answered why without calling the backend.
RetRejected(why) == [kind |-> "nocall", dict |-> NoProject, list |-> <<>>, exc |-> why]

\* ------------------------------------------------------------------ calls
\* A call in progress: its arguments, its position and its local variables.
NewCall(op, via, project, user_key, admin_key, data, limit, new_user_key, new_admin_key) ==
    [ op |-> op, via |-> via, project |-> project,
      user_key |-> user_key, admin_key |-> admin_key,
      data |-> data, limit |-> limit,
      new_user_key |-> new_user_key, new_admin_key |-> new_admin_key,
      pc |-> "start", projects |-> <<>>, project_data |-> <<>>,
      authz |-> FALSE, matched |-> FALSE, ret |-> RetPending,
      project_creation_secret |-> None, has_json |-> TRUE, secret_header |-> None ]

IdleCall ==
    [ NewCall("idle", "backend", "alpha", None, None, NoData, {}, "uk1", "a-1")
        EXCEPT !.pc = "done", !.ret = RetNone ]

\* A POST /api/v1/projects request to a DatatopsServer constructed with
\* project_creation_secret = secret over the backend: a JSON body that is
\* truthy or not (`not request.json` holds of no body and of the body {}),
\* the body's "project" (None when the body has none), the secret header.
CreateRequest(secret, has_json, project, header, keys) ==
    [ NewCall("create_project", "http", project, None, None, NoData, {}, keys[1], keys[2])
        EXCEPT !.project_creation_secret = secret, !.has_json = has_json,
               !.secret_header = header ]

Goto(db, t, pc) == [db |-> db, t |-> [t EXCEPT !.pc = pc]]
Return(db, t, ret) == [db |-> db, t |-> [t EXCEPT !.pc = "done", !.ret = ret]]

\* ------------------------------------------------------------------ JSONFileBackend
\* The stored state a call works on:
\*   db.fs             path stem -> file, the root directory
\*   db.project_table  the items of the project table
\*   db.data_table     the items of the data table
\*   db.now            the clock, in whole seconds

\* _project_exists(project): (self.path / (project + ".json")).exists()
_project_exists(db, project) == PathExists(db.fs, project)

\* The dict create_project builds from the generated keys.
project_dict(t) ==
    [name |-> t.project, user_key |-> t.new_user_key, admin_key |-> t.new_admin_key]

\* A registry scan that accepts either of the project's keys in either channel.
jf_scan_any_channel(projects, project, user_key, admin_key) ==
    LET hits == {i \in 1..Len(projects) : projects[i].name = project} IN
    IF hits = {} THEN FALSE
    ELSE LET i == CHOOSE j \in hits : \A k \in hits : j <= k IN
         {user_key, admin_key} \cap {projects[i].user_key, projects[i].admin_key} # {}

\* for p in projects: if p["name"] == project:
\*     return p["user_key"] == user_key or p["admin_key"] == admin_key
\* return False
jf_scan(projects, project, user_key, admin_key) ==
    LET hits == {i \in 1..Len(projects) : projects[i].name = project} IN
    IF hits = {} THEN FALSE
    ELSE LET i == CHOOSE j \in hits : \A k \in hits : j <= k IN
         projects[i].user_key = user_key \/ projects[i].admin_key = admin_key

\* JSONFileBackend.create_project, one storage access per step.
jf_create_project(db, t) ==
    CASE t.pc = "cp_exists" ->
           IF PathExists(db.fs, t.project)
           THEN Return(db, t, RetBool(FALSE))
           ELSE Goto(db, t, "cp_open1")
      [] t.pc = "cp_open1" ->
           Goto([db EXCEPT !.fs[t.project] = EmptyFile], t, "cp_dump1")
      [] t.pc = "cp_dump1" ->
           Goto([db EXCEPT !.fs[t.project] = JsonDoc("records", <<>>)], t, "cp_exists2")
      [] t.pc = "cp_exists2" ->
           IF PathExists(db.fs, REGISTRY)
           THEN Goto(db, t, "cp_read")
           ELSE Goto(db, [t EXCEPT !.projects = <<>>], "cp_open2")
      [] t.pc = "cp_read" ->
           LET r == ReadJsonKey(db.fs, REGISTRY, "projects") IN
           IF r.exc # "" THEN Return(db, t, RetRaise(r.exc))
           ELSE Goto(db, [t EXCEPT !.projects = r.items], "cp_open2")
      [] t.pc = "cp_open2" ->
           Goto([db EXCEPT !.fs[REGISTRY] = EmptyFile], t, "cp_dump2")
      [] t.pc = "cp_dump2" ->
           Return([db EXCEPT !.fs[REGISTRY] =
                       JsonDoc("projects", Append(t.projects, project_dict(t)))],
                  t, RetDict(project_dict(t)))

\* A store that trusts its caller: it goes on to write whatever
\* is_authorized_to_write answered.
after_authorized_to_write_unchecked(db, t, b, next) ==
    IF t.op = "store"
    THEN Goto(db, [t EXCEPT !.authz = TRUE], next)
    ELSE Return(db, [t EXCEPT !.authz = b], RetBool(b))

\* Where a call goes once is_authorized_to_write has answered b.
after_authorized_to_write(db, t, b, next) ==
    IF t.op = "store"
    THEN IF b THEN Goto(db, [t EXCEPT !.authz = TRUE], next)
         ELSE Return(db, [t EXCEPT !.authz = FALSE], RetBool(FALSE))
    ELSE Return(db, [t EXCEPT !.authz = b], RetBool(b))

\* Where a call goes once is_authorized_to_read has answered b.
after_authorized_to_read(db, t, b, next, denied) ==
    IF t.op = "list_data"
    THEN IF b THEN Goto(db, [t EXCEPT !.authz = TRUE], next)
         ELSE Return(db, [t EXCEPT !.authz = FALSE], denied)
    ELSE Return(db, [t EXCEPT !.authz = b], RetBool(b))

\* JSONFileBackend.is_authorized_to_write
jf_is_authorized_to_write(db, t) ==
    CASE t.pc = "aw_exists" ->
           IF _project_exists(db, t.project)
           THEN Goto(db, t, "aw_read")
           ELSE after_authorized_to_write(db, t, FALSE, "st_read")
      [] t.pc = "aw_read" ->
           LET r == ReadJsonKey(db.fs, REGISTRY, "projects") IN
           IF r.exc # "" THEN Return(db, t, RetRaise(r.exc))
           ELSE after_authorized_to_write(
                    db, t, jf_scan(r.items, t.project, t.user_key, t.admin_key),
                    "st_read")

\* JSONFileBackend.is_authorized_to_read
jf_is_authorized_to_read(db, t) ==
    CASE t.pc = "ar_exists" ->
           IF _project_exists(db, t.project)
           THEN Goto(db, t, "ar_read")
           ELSE after_authorized_to_read(db, t, FALSE, "ld_read", RetNone)
      [] t.pc = "ar_read" ->
           LET r == ReadJsonKey(db.fs, REGISTRY, "projects") IN
           IF r.exc # "" THEN Return(db, t, RetRaise(r.exc))
           ELSE after_authorized_to_read(
                    db, t, jf_scan(r.items, t.project, t.user_key, t.admin_key),
                    "ld_read", RetNone)

\* A store that appends to the document as it is when it writes, replacing
\* it in one step: no record of a concurrent store is lost.
jf_store_appends_to_current(db, t) ==
    CASE t.pc = "st_read" ->
           LET r == ReadJsonKey(db.fs, t.project, "records") IN
           IF r.exc # "" THEN Return(db, t, RetRaise(r.exc))
           ELSE Goto(db, [t EXCEPT !.project_data = Append(r.items, t.data)], "st_open")
      [] t.pc = "st_open" ->
           Goto(db, t, "st_dump")
      [] t.pc = "st_dump" ->
           LET r == ReadJsonKey(db.fs, t.project, "records") IN
           Return([db EXCEPT !.fs[t.project] =
                       JsonDoc("records", IF r.exc # "" THEN t.project_data
                                          ELSE Append(r.items, t.data))],
                  t, RetBool(TRUE))

\* JSONFileBackend.store, after is_authorized_to_write let it through.
jf_store(db, t) ==
    CASE t.pc = "st_read" ->
           LET r == ReadJsonKey(db.fs, t.project, "records") IN
           IF r.exc # "" THEN Return(db, t, RetRaise(r.exc))
           ELSE Goto(db, [t EXCEPT !.project_data = Append(r.items, t.data)], "st_open")
      [] t.pc = "st_open" ->
           Goto([db EXCEPT !.fs[t.project] = EmptyFile], t, "st_dump")
      [] t.pc = "st_dump" ->
           Return([db EXCEPT !.fs[t.project] = JsonDoc("records", t.project_data)],
                  t, RetBool(TRUE))

\* records[:limit] for a limit >= 0
Slice(records, limit) ==
    IF limit = {} THEN records
    ELSE LET k == CHOOSE n \in limit : TRUE IN
         SubSeq(records, 1, IF k < Len(records) THEN k ELSE Len(records))

\* A list_data that answers an empty list for a project that does not exist
\* and None for one the keys do not match.
jf_list_data_missing_is_empty(db, t) ==
    CASE t.pc = "ld_exists" ->
           IF _project_exists(db, t.project)
           THEN Goto(db, t, "ar_exists")
           ELSE Return(db, t, RetList(<<>>))
      [] t.pc = "ld_read" ->
           LET r == ReadJsonKey(db.fs, t.project, "records") IN
           IF r.exc # "" THEN Return(db, t, RetRaise(r.exc))
           ELSE Return(db, t, RetList(Slice(r.items, t.limit)))

\* JSONFileBackend.list_data
jf_list_data(db, t) ==
    CASE t.pc = "ld_exists" ->
           IF _project_exists(db, t.project)
           THEN Goto(db, t, "ar_exists")
           ELSE Return(db, t, RetNone)
      [] t.pc = "ld_read" ->
           LET r == ReadJsonKey(db.fs, t.project, "records") IN
           IF r.exc # "" THEN Return(db, t, RetRaise(r.exc))
           ELSE Return(db, t, RetList(Slice(r.items, t.limit)))

\* JSONFileBackend.list_projects
jf_list_projects(db, t) ==
    CASE t.pc = "lp_exists" ->
           IF PathExists(db.fs, REGISTRY)
           THEN Goto(db, t, "lp_read")
           ELSE Return(db, t, RetList(<<>>))
      [] t.pc = "lp_read" ->
           LET r == ReadJsonKey(db.fs, REGISTRY, "projects") IN
           IF r.exc # "" THEN Return(db, t, RetRaise(r.exc))
           ELSE Return(db, t, RetList([i \in 1..Len(r.items) |-> r.items[i].name]))

\* JSONFileBackend.delete_project
jf_delete_project(db, t) == Return(db, t, RetRaise("NotImplementedError"))

\* ------------------------------------------------------------------ DynamoDBBackend
\* project_table.get_item(Key={"name": project}): the items found (none or one).
_get_project_dict(db, project) == {i \in db.project_table : i.name = project}

\* project_table.put_item(Item=item): replaces the item of the same name.
project_put_item(table, item) == {i \in table : i.name # item.name} \cup {item}

\* The primary key of a data item: (partition key, sort key).
DataKey(item) == <<item[DATATOPS_PRIMARY_KEY], item[DATATOPS_TIMESTAMP_KEY]>>

\* A put_item on a table keyed by the sort key alone: it replaces the item
\* of the same timestamp, whatever its partition.
data_put_item_by_sort_key(table, item) ==
    {i \in table : i[DATATOPS_TIMESTAMP_KEY] # item[DATATOPS_TIMESTAMP_KEY]} \cup {item}

\* data_table.put_item(Item=item): replaces the item of the same primary key.
data_put_item(table, item) == {i \in table : DataKey(i) # DataKey(item)} \cup {item}

\* The items of a partition in ascending sort-key order.
RECURSIVE SortBySortKey(_)
SortBySortKey(items) ==
    IF items = {} THEN <<>>
    ELSE LET first == CHOOSE i \in items :
                 \A j \in items : i[DATATOPS_TIMESTAMP_KEY].n <= j[DATATOPS_TIMESTAMP_KEY].n
         IN <<first>> \o SortBySortKey(items \ {first})

\* data_table.query(KeyConditionExpression=Key(PRIMARY_KEY).eq(project), Limit=limit):
\* the partition in sort-key order, cut to Limit; Limit must be at least 1.
data_query(table, project, limit) ==
    LET part == SortBySortKey({i \in table : i[DATATOPS_PRIMARY_KEY] = StrV(project)}) IN
    IF limit = {} THEN [exc |-> "", items |-> part]
    ELSE LET k == CHOOSE n \in limit : TRUE IN
         IF k < 1 THEN [exc |-> "ParamValidationError", items |-> <<>>]
         ELSE [exc |-> "", items |-> SubSeq(part, 1, IF k < Len(part) THEN k ELSE Len(part))]

\* An item as the table resource returns it: numbers are Decimals.
deserialize(item) ==
    [f \in DOMAIN item |-> IF item[f].t = "int" THEN DecV(item[f].n) ELSE item[f]]

\* DynamoDBBackend.is_authorized_to_write
dy_is_authorized_to_write(db, t) ==
    LET found == _get_project_dict(db, t.project) IN
    IF found = {} THEN after_authorized_to_write(db, t, FALSE, "ds_put")
    ELSE LET pd == CHOOSE i \in found : TRUE IN
         after_authorized_to_write(
             db, t,
             \/ (t.user_key # None /\ t.user_key = pd.user_key)
             \/ (t.admin_key # None /\ t.admin_key = pd.admin_key),
             "ds_put")

\* DynamoDBBackend.is_authorized_to_read
dy_is_authorized_to_read(db, t) ==
    LET found == _get_project_dict(db, t.project) IN
    IF found = {} THEN after_authorized_to_read(db, t, FALSE, "dl_query", RetList(<<>>))
    ELSE LET pd == CHOOSE i \in found : TRUE IN
         after_authorized_to_read(
             db, t,
             t.admin_key # None /\ t.admin_key = pd.admin_key,
             "dl_query", RetList(<<>>))

\* An item that keeps the key fields the caller's payload already carries.
dy_item_keeps_caller_fields(db, t) ==
    LET stamped == IF DATATOPS_TIMESTAMP_KEY \in DOMAIN t.data THEN t.data
                   ELSE DictSet(t.data, DATATOPS_TIMESTAMP_KEY, IntV(db.now))
    IN IF DATATOPS_PRIMARY_KEY \in DOMAIN stamped THEN stamped
       ELSE DictSet(stamped, DATATOPS_PRIMARY_KEY, StrV(t.project))

\* The item DynamoDBBackend.store puts: the payload with both key fields set.
dy_item(db, t) ==
    DictSet(DictSet(t.data, DATATOPS_TIMESTAMP_KEY, IntV(db.now)),
            DATATOPS_PRIMARY_KEY, StrV(t.project))

\* DynamoDBBackend.store, after is_authorized_to_write let it through.
dy_store(db, t) ==
    Return([db EXCEPT !.data_table = data_put_item(db.data_table, dy_item(db, t))],
           [t EXCEPT !.data = dy_item(db, t)], RetBool(TRUE))

\* DynamoDBBackend.list_data, after is_authorized_to_read let it through.
dy_list_data(db, t) ==
    LET r == data_query(db.data_table, t.project, t.limit) IN
    IF r.exc # "" THEN Return(db, t, RetRaise(r.exc))
    ELSE Return(db, t, RetList([i \in 1..Len(r.items) |-> deserialize(r.items[i])]))

\* DynamoDBBackend.create_project
dy_create_project(db, t) ==
    CASE t.pc = "dc_get" ->
           IF _get_project_dict(db, t.project) # {}
           THEN Return(db, t, RetBool(FALSE))
           ELSE Goto(db, t, "dc_put")
      [] t.pc = "dc_put" ->
           Return([db EXCEPT !.project_table =
                       project_put_item(db.project_table, project_dict(t))],
                  t, RetDict(project_dict(t)))

\* A list_projects / delete_project stubbed to an empty result.
dy_stubbed_empty(db, t) == Return(db, t, RetList(<<>>))

\* DynamoDBBackend.list_projects and delete_project
dy_not_implemented(db, t) == Return(db, t, RetRaise("NotImplementedError"))

\* ------------------------------------------------------------------ DatatopsServer
\* The first step of a backend method.
backend_entry(db, t) ==
    IF db.backend = "json"
    THEN CASE t.op = "create_project" -> "cp_exists"
           [] t.op = "store" -> "aw_exists"
           [] t.op = "is_authorized_to_write" -> "aw_exists"
           [] t.op = "list_data" -> "ld_exists"
           [] t.op = "is_authorized_to_read" -> "ar_exists"
           [] t.op = "list_projects" -> "lp_exists"
           [] t.op = "delete_project" -> "dp_raise"
    ELSE CASE t.op = "create_project" -> "dc_get"
           [] t.op = "store" -> "dw_get"
           [] t.op = "is_authorized_to_write" -> "dw_get"
           [] t.op = "list_data" -> "dr_get"
           [] t.op = "is_authorized_to_read" -> "dr_get"
           [] t.op = "list_projects" -> "dn_raise"
           [] t.op = "delete_project" -> "dn_raise"

\* Python truth value of an Optional[str].
Truthy(v) == v # None /\ v # ""

\* A create-project route that never looks at the creation secret.
_create_project_ungated(db, t) ==
    IF ~t.has_json THEN Return(db, t, RetRejected("No JSON data"))
    ELSE IF t.project = None THEN Return(db, t, RetRejected("Missing project name."))
    ELSE Goto(db, t, backend_entry(db, t))

\* DatatopsServer._create_project up to its call of self.create_project: the
\* body is looked at first, then the creation secret, then the project name.
_create_project(db, t) ==
    IF ~t.has_json THEN Return(db, t, RetRejected("No JSON data"))
    ELSE IF Truthy(t.project_creation_secret)
            /\ t.secret_header # t.project_creation_secret
    THEN Return(db, t, RetRejected("Project could not be created."))
    ELSE IF t.project = None THEN Return(db, t, RetRejected("Missing project name."))
    ELSE Goto(db, t, backend_entry(db, t))

\* DatatopsServer._store up to its call of self.store: a request with no
\* JSON body is answered without calling the backend.
_store(db, t) ==
    IF t.data = NoData THEN Return(db, t, RetNoCall)
    ELSE Goto(db, t, "sv_store")

\* A DatatopsServer.store that passes the payload on without the timestamp.
server_store_unstamped(db, t) ==
    Goto(db, t, backend_entry(db, t))

\* A DatatopsServer.store that asks for the creation secret as well.
server_store_gated(db, t) ==
    IF Truthy(t.project_creation_secret) /\ t.secret_header # t.project_creation_secret
    THEN Return(db, t, RetBool(FALSE))
    ELSE Goto(db, [t EXCEPT !.data = DictSet(t.data, DATATOPS_TIMESTAMP_KEY,
                                             IsoV(db.now))],
              backend_entry(db, t))

\* DatatopsServer.store: stamps the payload, then calls backend.store.
server_store(db, t) ==
    Goto(db, [t EXCEPT !.data = DictSet(t.data, DATATOPS_TIMESTAMP_KEY, IsoV(db.now))],
         backend_entry(db, t))

\* Where a call starts: at the route, at the DatatopsServer method or at the
\* backend method.
Enter(db, t) ==
    [t EXCEPT !.pc = IF t.op = "create_project" /\ t.via = "http" THEN "h_create"
                     ELSE IF t.op = "store" /\ t.via = "http" THEN "h_store"
                     ELSE IF t.op = "store" /\ t.via = "server" THEN "sv_store"
                     ELSE backend_entry(db, t)]

\* The two tables of a DynamoDBBackend: data_table_name, project_table_name.
TableNames == {"data", "project"}

\* The drop-both-tables operation was not called.
NoTeardown == [pc |-> "idle", yes_im_sure |-> "default"]

\* A request to a table (get_item, put_item, query): r if the table is
\* active; DynamoDB answers ResourceNotFoundException for a table that does
\* not exist or is still being created.
on_table(db, t, name, r) ==
    IF db.tables[name] = "active" THEN r
    ELSE Return(db, t, RetRaise("ResourceNotFoundException"))

\* One step of a call.
Step(db, t) ==
    CASE t.pc \in {"cp_exists", "cp_open1", "cp_dump1", "cp_exists2", "cp_read",
                   "cp_open2", "cp_dump2"} -> jf_create_project(db, t)
      [] t.pc \in {"aw_exists", "aw_read"} -> jf_is_authorized_to_write(db, t)
      [] t.pc \in {"ar_exists", "ar_read"} -> jf_is_authorized_to_read(db, t)
      [] t.pc \in {"st_read", "st_open", "st_dump"} -> jf_store(db, t)
      [] t.pc \in {"ld_exists", "ld_read"} -> jf_list_data(db, t)
      [] t.pc \in {"lp_exists", "lp_read"} -> jf_list_projects(db, t)
      [] t.pc = "dp_raise" -> jf_delete_project(db, t)
      [] t.pc \in {"dc_get", "dc_put"} ->
           on_table(db, t, "project", dy_create_project(db, t))
      [] t.pc = "dw_get" -> on_table(db, t, "project", dy_is_authorized_to_write(db, t))
      [] t.pc = "dr_get" -> on_table(db, t, "project", dy_is_authorized_to_read(db, t))
      [] t.pc = "ds_put" -> on_table(db, t, "data", dy_store(db, t))
      [] t.pc = "dl_query" -> on_table(db, t, "data", dy_list_data(db, t))
      [] t.pc = "dn_raise" -> dy_not_implemented(db, t)
      [] t.pc = "h_create" -> _create_project(db, t)
      [] t.pc = "h_store" -> _store(db, t)
      [] t.pc = "sv_store" -> server_store(db, t)

\* A call run from its current step to its return, nothing else in between.
RECURSIVE Run(_, _)
Run(db, t) ==
    IF t.pc = "done" THEN [db |-> db, t |-> t]
    ELSE LET r == Step(db, t) IN Run(r.db, r.t)

\* A whole call on db.
Call(db, t) == Run(db, Enter(db, t))

\* The HTTP response of a route: status code and JSON body.
Response(code, status, message, data) ==
    [code |-> code, status |-> status, message |-> message, data |-> data,
     error |-> ""]

\* A body that is only {"error": text}.
ErrorResponse(code, text) ==
    [code |-> code, status |-> "", message |-> "", data |-> [json |-> "absent", array |-> <<>>],
     error |-> text]

\* jsonify of the descriptor backend.create_project returned.
JsonObject(d) == [json |-> "object", array |-> <<d>>]

\* jsonify of what backend.list_data returned: null or an array.
JsonData(ret) ==
    IF ret.kind = "none" THEN [json |-> "null", array |-> <<>>]
    ELSE [json |-> "array", array |-> ret.list]

\* A body without a data field.
NoJsonData == [json |-> "absent", array |-> <<>>]

\* What the route of a finished call answers (an exception that escapes the
\* route is the framework's 500 page).
RouteResponse(t) ==
    IF t.ret.kind = "raise"
    THEN IF t.op = "create_project" /\ t.ret.exc = "ValueError"
         THEN Response(400, "error", "ValueError", NoJsonData)
         ELSE Response(500, "", "", NoJsonData)
    ELSE IF t.op = "create_project"
    THEN IF t.ret.kind = "nocall"
         THEN IF t.ret.exc = "No JSON data" THEN ErrorResponse(400, t.ret.exc)
              ELSE IF t.ret.exc = "Project could not be created."
              THEN ErrorResponse(403, t.ret.exc)
              ELSE Response(400, "error", t.ret.exc, NoJsonData)
         ELSE IF t.ret.kind = "dict"
         THEN Response(200, "success", "", JsonObject(t.ret.dict))
         ELSE Response(400, "error",
                       "Project could not be created. (Maybe it already exists?)",
                       NoJsonData)
    ELSE IF t.op = "store"
    THEN IF t.ret.kind = "nocall" THEN Response(400, "error", "Missing data.", NoJsonData)
         ELSE IF t.ret.kind = "true" THEN Response(200, "success", "", NoJsonData)
         ELSE Response(403, "error", "Not authorized.", NoJsonData)
    ELSE Response(200, "success", "", JsonData(t.ret))

\* ------------------------------------------------------------------ state
VARIABLES
    backend,        \* "json" or "dynamodb": the backend the server is bound to
    fs,             \* JSONFileBackend: path stem -> file under the root directory
    project_table,  \* DynamoDBBackend: the items of the project table
    data_table,     \* DynamoDBBackend: the items of the data table
    now,            \* the clock, in whole seconds
    th,             \* request thread -> the call it is running (ConcSpec)
    ncalls,         \* calls the request threads have started (ConcSpec)
    puts,           \* history: <<project, record>> of every store that passed the key check
    attempted,      \* history: names create_project was called with
    tables,         \* DynamoDBBackend: table -> "absent", "creating" or "active"
    ctor,           \* DynamoDBBackend.__init__: where the constructor is
    td              \* the drop-both-tables operation: where it is, and its flag

vars == <<backend, fs, project_table, data_table, now, th, ncalls, puts, attempted,
          tables, ctor, td>>

Threads == {1, 2}
Vias == {"backend", "server", "http"}

DB == [backend |-> backend, fs |-> fs, project_table |-> project_table,
       data_table |-> data_table, now |-> now, tables |-> tables]

\* The records file of a project, as stored (no access check).
FileRecords(db, project) ==
    IF db.fs[project].st = "json" /\ db.fs[project].key = "records"
    THEN db.fs[project].items ELSE <<>>

\* The registry entries, as stored.
RegistryEntries(db) ==
    IF db.fs[REGISTRY].st = "json" /\ db.fs[REGISTRY].key = "projects"
    THEN db.fs[REGISTRY].items ELSE <<>>

\* The project dicts the bound backend holds for a name.
Entries(db, project) ==
    IF db.backend = "json"
    THEN {RegistryEntries(db)[i] : i \in {j \in 1..Len(RegistryEntries(db)) :
                                             RegistryEntries(db)[j].name = project}}
    ELSE {i \in db.project_table : i.name = project}

\* The record sequence the bound backend holds for a project.
Records(db, project) ==
    IF db.backend = "json" THEN FileRecords(db, project)
    ELSE SortBySortKey({i \in db.data_table : i[DATATOPS_PRIMARY_KEY] = StrV(project)})

\* Records stored altogether.
StoredCount(db) ==
    IF db.backend = "json"
    THEN LET RECURSIVE Sum(_)
             Sum(S) == IF S = {} THEN 0
                       ELSE LET n == CHOOSE x \in S : TRUE IN
                            Len(FileRecords(db, n)) + Sum(S \ {n})
         IN Sum(Names)
    ELSE Cardinality(db.data_table)

\* The supplied user key or admin key equals a key stored for the project.
KeysMatch(db, project, user_key, admin_key) ==
    \E e \in Entries(db, project) : e.user_key = user_key \/ e.admin_key = admin_key

\* A step, with the history of whether the keys matched when they were checked.
TrackedStep(db, t) ==
    LET r == Step(db, t) IN
    [db |-> r.db,
     t |-> [r.t EXCEPT !.matched =
              IF t.pc \in {"aw_exists", "aw_read", "dw_get"}
              THEN KeysMatch(db, t.project, t.user_key, t.admin_key)
              ELSE @]]

RECURSIVE TrackedRun(_, _)
TrackedRun(db, t) ==
    IF t.pc = "done" THEN [db |-> db, t |-> t]
    ELSE LET r == TrackedStep(db, t) IN TrackedRun(r.db, r.t)

\* The history after call t returned.
PutsAfter(t) ==
    IF t.op = "store" /\ t.ret.kind = "true" /\ t.matched
    THEN puts \cup {<<t.project, t.data>>} ELSE puts

Init ==
    /\ backend \in {"json", "dynamodb"}
    /\ fs = [n \in Names |-> AbsentFile]
    /\ project_table = {}
    /\ data_table = {}
    /\ now = 0
    /\ th = [i \in Threads |-> IdleCall]
    /\ ncalls = 0
    /\ puts = {}
    /\ attempted = {}
    /\ tables = [n \in TableNames |-> "active"]
    /\ ctor = "constructed"
    /\ td = NoTeardown

\* ------------------------------------------------------------------ Spec: one call at a time
\* The state after call t has run from entry to return.
Do(t) ==
    \E r \in {TrackedRun(DB, Enter(DB, t))} :
        /\ fs' = r.db.fs
        /\ project_table' = r.db.project_table
        /\ data_table' = r.db.data_table
        /\ puts' = PutsAfter(r.t)
        /\ attempted' = IF t.op = "create_project" /\ r.t.ret.kind # "nocall"
                        THEN attempted \cup {t.project} ELSE attempted

\* backend.create_project(project)
CreateProject ==
    /\ \E project \in Names, keys \in KeyDraws :
         Do(NewCall("create_project", "backend", project, None, None, NoData, {},
                    keys[1], keys[2]))
    /\ UNCHANGED <<backend, now, th, ncalls, tables, ctor, td>>

\* POST /api/v1/projects
CreateProjectRequest ==
    /\ \E secret \in Secrets, has_json \in BOOLEAN, project \in Names \cup {None},
          header \in SecretHeaders, keys \in KeyDraws :
         Do(CreateRequest(secret, has_json, project, header, keys))
    /\ UNCHANGED <<backend, now, th, ncalls, tables, ctor, td>>

\* POST /api/v1/projects/<project>
Store ==
    /\ StoredCount(DB) < MaxRecords
    /\ \E project \in Names, uk \in UserKeyInputs, ak \in AdminKeyInputs,
          data \in Payloads \cup {NoData} :
         Do(NewCall("store", "http", project, uk, ak, data, {}, "uk1", "a-1"))
    /\ UNCHANGED <<backend, now, th, ncalls, tables, ctor, td>>

\* GET /api/v1/projects/<project>
ListData ==
    /\ \E project \in Names, uk \in UserKeyInputs, ak \in AdminKeyInputs, limit \in Limits :
         Do(NewCall("list_data", "http", project, uk, ak, NoData, limit, "uk1", "a-1"))
    /\ UNCHANGED <<backend, now, th, ncalls, tables, ctor, td>>

\* backend.is_authorized_to_write(project, user_key, admin_key)
IsAuthorizedToWrite ==
    /\ \E project \in Names, uk \in UserKeyInputs, ak \in AdminKeyInputs :
         Do(NewCall("is_authorized_to_write", "backend", project, uk, ak, NoData, {},
                    "uk1", "a-1"))
    /\ UNCHANGED <<backend, now, th, ncalls, tables, ctor, td>>

\* backend.is_authorized_to_read(project, user_key, admin_key)
IsAuthorizedToRead ==
    /\ \E project \in Names, uk \in UserKeyInputs, ak \in AdminKeyInputs :
         Do(NewCall("is_authorized_to_read", "backend", project, uk, ak, NoData, {},
                    "uk1", "a-1"))
    /\ UNCHANGED <<backend, now, th, ncalls, tables, ctor, td>>

\* backend.list_projects()
ListProjects ==
    /\ Do(NewCall("list_projects", "backend", "alpha", None, None, NoData, {}, "uk1", "a-1"))
    /\ UNCHANGED <<backend, now, th, ncalls, tables, ctor, td>>

\* backend.delete_project(project, admin_key)
DeleteProject ==
    /\ \E project \in Names, ak \in AdminKeyInputs :
         Do(NewCall("delete_project", "backend", project, None, ak, NoData, {},
                    "uk1", "a-1"))
    /\ UNCHANGED <<backend, now, th, ncalls, tables, ctor, td>>

\* A second passes.
Tick ==
    /\ now < MaxClock
    /\ now' = now + 1
    /\ UNCHANGED <<backend, fs, project_table, data_table, th, ncalls, puts, attempted, tables, ctor, td>>

Next ==
    \/ CreateProject
    \/ CreateProjectRequest
    \/ Store
    \/ ListData
    \/ IsAuthorizedToWrite
    \/ IsAuthorizedToRead
    \/ ListProjects
    \/ DeleteProject
    \/ Tick

Spec == Init /\ [][Next]_vars

\* ------------------------------------------------------------------ ConcSpec: concurrent requests
\* The calls a request thread may start.
ThreadCalls ==
    {NewCall("create_project", "backend", project, None, None, NoData, {}, keys[1], keys[2]) :
        project \in Names, keys \in KeyDraws}
    \cup
    {NewCall("store", "http", project, uk, None, data, {}, "uk1", "a-1") :
        project \in Names \ {REGISTRY}, uk \in UserKeys,
        data \in {d \in Payloads : DOMAIN d = {"x"}}}
    \cup
    {NewCall("list_data", "http", project, None, ak, NoData, {}, "uk1", "a-1") :
        project \in Names \ {REGISTRY}, ak \in AdminKeys}

\* A request thread starts a call.
Begin(i) ==
    /\ th[i].pc = "done"
    /\ ncalls < MaxConcCalls
    /\ \E t \in ThreadCalls :
         /\ t.op = "store" => StoredCount(DB) < MaxRecords
         /\ th' = [th EXCEPT ![i] = Enter(DB, t)]
         /\ attempted' = IF t.op = "create_project" THEN attempted \cup {t.project}
                         ELSE attempted
    /\ ncalls' = ncalls + 1
    /\ UNCHANGED <<backend, fs, project_table, data_table, now, puts, tables, ctor, td>>

\* A request thread takes the next step of its call.
StepThread(i) ==
    /\ th[i].pc # "done"
    /\ LET r == TrackedStep(DB, th[i]) IN
         /\ fs' = r.db.fs
         /\ project_table' = r.db.project_table
         /\ data_table' = r.db.data_table
         /\ th' = [th EXCEPT ![i] = r.t]
         /\ puts' = IF r.t.pc = "done" THEN PutsAfter(r.t) ELSE puts
    /\ UNCHANGED <<backend, now, ncalls, attempted, tables, ctor, td>>

ConcNext ==
    \/ \E i \in Threads : Begin(i)
    \/ \E i \in Threads : StepThread(i)
    \/ Tick

ConcSpec == Init /\ [][ConcNext]_vars

\* ------------------------------------------------------------------ calls, as callers make them
CreateCall(project, keys) ==
    NewCall("create_project", "backend", project, None, None, NoData, {}, keys[1], keys[2])
StoreCall(via, project, uk, ak, data) ==
    NewCall("store", via, project, uk, ak, data, {}, "uk1", "a-1")
ListCall(via, project, uk, ak, limit) ==
    NewCall("list_data", via, project, uk, ak, NoData, limit, "uk1", "a-1")
ListProjectsCall ==
    NewCall("list_projects", "backend", "alpha", None, None, NoData, {}, "uk1", "a-1")
DeleteCall(project, ak) ==
    NewCall("delete_project", "backend", project, None, ak, NoData, {}, "uk1", "a-1")
WriteCheck(project, uk, ak) ==
    NewCall("is_authorized_to_write", "backend", project, uk, ak, NoData, {}, "uk1", "a-1")
ReadCheck(project, uk, ak) ==
    NewCall("is_authorized_to_read", "backend", project, uk, ak, NoData, {}, "uk1", "a-1")

\* The project exists: the bound backend holds a project dict for the name.
Exists(db, project) == Entries(db, project) # {}

\* The number of project dicts the bound backend holds for the name.
EntryCount(db, project) ==
    IF db.backend = "json"
    THEN Cardinality({j \in 1..Len(RegistryEntries(db)) :
                         RegistryEntries(db)[j].name = project})
    ELSE Cardinality({i \in db.project_table : i.name = project})

\* The same stored state (the clock aside).
SameStore(a, b) ==
    a.fs = b.fs /\ a.project_table = b.project_table /\ a.data_table = b.data_table

\* Two records equal as Python dicts.
SameDict(a, b) == DOMAIN a = DOMAIN b /\ \A f \in DOMAIN a : PyEq(a[f], b[f])

\* Two record sequences equal as Python lists.
SameList(a, b) == Len(a) = Len(b) /\ \A i \in 1..Len(a) : SameDict(a[i], b[i])

\* db one second later.
Later(db) == [db EXCEPT !.now = @ + 1]

\* ------------------------------------------------------------------ claims

\* C1 (as claimed): for every non-empty name no project was created for, on
\* either backend, create_project(name) returns a descriptor {name, user_key,
\* admin_key}, a second create_project(name) right after it returns False,
\* and afterwards the backend holds exactly one entry for the name, with the
\* keys the first call returned.
C1_CreateTwice ==
    \A project \in Names, k1 \in KeyDraws, k2 \in KeyDraws :
        ~Exists(DB, project) /\ project \notin attempted =>
            LET r1 == Call(DB, CreateCall(project, k1))
                r2 == Call(r1.db, CreateCall(project, k2))
            IN /\ r1.t.ret = RetDict([name |-> project, user_key |-> k1[1],
                                      admin_key |-> k1[2]])
               /\ r2.t.ret = RetBool(FALSE)
               /\ EntryCount(r2.db, project) = 1
               /\ Entries(r2.db, project) = {r1.t.ret.dict}

\* C2 (as claimed): creation is an atomic create-if-absent: of two
\* create_project calls for one name that overlap, at most one returns a
\* descriptor, and the backend never holds more than one entry for a name.
C2_AtomicCreate ==
    /\ \A i \in Threads, j \in Threads :
           (/\ i # j
            /\ th[i].op = "create_project" /\ th[j].op = "create_project"
            /\ th[i].project = th[j].project
            /\ th[i].pc = "done" /\ th[j].pc = "done")
           => ~(th[i].ret.kind = "dict" /\ th[j].ret.kind = "dict")
    /\ \A project \in Names : EntryCount(DB, project) <= 1

\* C3 (as claimed): for an existing project P and any credentials, on either
\* backend, store stores the record and list_data returns P's records exactly
\* when the user key equals P's user key or the admin key equals P's admin
\* key, and both fail otherwise; after a store that succeeded with P's user
\* key, list_data with that user key alone returns the stored record.
C3_AuthorizedIff ==
    \A project \in Names, uk \in UserKeyInputs, ak \in AdminKeyInputs, data \in Payloads :
        Exists(DB, project) =>
            LET ok == KeysMatch(DB, project, uk, ak)
                st == Call(DB, StoreCall("backend", project, uk, ak, data))
                ls == Call(DB, ListCall("backend", project, uk, ak, {}))
                after == Call(st.db, ListCall("backend", project, uk, None, {}))
            IN /\ (st.t.ret = RetBool(TRUE)) <=> ok
               /\ ~ok => st.t.ret = RetBool(FALSE)
               /\ ok => /\ ls.t.ret.kind = "list"
                        /\ SameList(ls.t.ret.list, Records(DB, project))
               /\ ~ok => ls.t.ret.kind = "none" \/ ls.t.ret = RetList(<<>>)
               /\ (st.t.ret = RetBool(TRUE) /\ KeysMatch(DB, project, uk, None)) =>
                      /\ after.t.ret.kind = "list"
                      /\ \E i \in 1..Len(after.t.ret.list) :
                             SameDict(after.t.ret.list[i], st.t.data)

\* C4 (as claimed): store calls that each returned true, however little time
\* passed between them, each add one record: after two of them list_data
\* with limit None returns the earlier records followed by the two stored
\* records, in the order stored.
C4_AppendOrder ==
    \A project \in Names, d1 \in Payloads, d2 \in Payloads, wait \in BOOLEAN :
        \A e \in Entries(DB, project) :
            LET s1 == Call(DB, StoreCall("server", project, None, e.admin_key, d1))
                between == IF wait THEN Later(s1.db) ELSE s1.db
                s2 == Call(between, StoreCall("server", project, None, e.admin_key, d2))
                ls == Call(s2.db, ListCall("server", project, None, e.admin_key, {}))
            IN (s1.t.ret = RetBool(TRUE) /\ s2.t.ret = RetBool(TRUE)) =>
                   /\ ls.t.ret.kind = "list"
                   /\ SameList(ls.t.ret.list,
                               Records(DB, project) \o <<s1.t.data, s2.t.data>>)

\* The fields a backend sets itself on every record it stores.
ReservedFields(db) ==
    IF db.backend = "json" THEN {DATATOPS_TIMESTAMP_KEY}
    ELSE {DATATOPS_TIMESTAMP_KEY, DATATOPS_PRIMARY_KEY}

\* C5 (as claimed): a record stored through DatatopsServer.store comes back
\* from list_data as the caller's payload with the timestamp field present
\* and no other field added, removed or changed, on either backend.
C5_OnlyTimestampAdded ==
    \A via \in {"server", "http"}, project \in Names, data \in Payloads :
        \A e \in Entries(DB, project) :
            LET st == Call(DB, StoreCall(via, project, None, e.admin_key, data))
                ls == Call(st.db, ListCall("server", project, None, e.admin_key, {}))
                got == ls.t.ret.list[Len(ls.t.ret.list)]
            IN st.t.ret = RetBool(TRUE) =>
                   /\ ls.t.ret.kind = "list" /\ Len(ls.t.ret.list) >= 1
                   /\ DOMAIN got = (DOMAIN data) \cup {DATATOPS_TIMESTAMP_KEY}
                   /\ \A f \in (DOMAIN data) \ {DATATOPS_TIMESTAMP_KEY} :
                          PyEq(got[f], data[f])

\* C5 (amended): a record stored through DatatopsServer.store comes back
\* from list_data as the caller's payload with the timestamp field present
\* and, on the table backend, the partition-key field set to the project's
\* name; no other field is added, removed or changed.
C5_ReservedFieldsOnly ==
    \A via \in {"server", "http"}, project \in Names, data \in Payloads :
        \A e \in Entries(DB, project) :
            LET st == Call(DB, StoreCall(via, project, None, e.admin_key, data))
                ls == Call(st.db, ListCall("server", project, None, e.admin_key, {}))
                got == ls.t.ret.list[Len(ls.t.ret.list)]
            IN st.t.ret = RetBool(TRUE) =>
                   /\ ls.t.ret.kind = "list" /\ Len(ls.t.ret.list) >= 1
                   /\ DOMAIN got = (DOMAIN data) \cup ReservedFields(DB)
                   /\ DATATOPS_TIMESTAMP_KEY \in DOMAIN got
                   /\ DB.backend = "dynamodb" =>
                          got[DATATOPS_PRIMARY_KEY] = StrV(project)
                   /\ \A f \in (DOMAIN data) \ ReservedFields(DB) :
                          PyEq(got[f], data[f])

\* C5 witness: a record stored through the orchestrator is held for a
\* project, and list_data with the project's admin key returns it with its
\* timestamp field.
C5_Witness ==
    \E project \in Names : \E e \in Entries(DB, project) :
        LET ls == Call(DB, ListCall("server", project, None, e.admin_key, {})) IN
        /\ Records(DB, project) # <<>>
        /\ ls.t.ret.kind = "list" /\ Len(ls.t.ret.list) >= 1
        /\ DATATOPS_TIMESTAMP_KEY \in DOMAIN ls.t.ret.list[1]
        /\ "x" \in DOMAIN ls.t.ret.list[1]

\* C6 (as claimed): with T records stored and authorized credentials,
\* list_data with limit k >= 0 returns the first min(k, T) records, with
\* limit None all T; limit 0 gives an empty sequence and k > T gives all T
\* without error, on either backend.
C6_Limit ==
    \A project \in Names, uk \in UserKeyInputs, ak \in AdminKeyInputs, limit \in Limits :
        (Exists(DB, project) /\ KeysMatch(DB, project, uk, ak)) =>
            LET ls == Call(DB, ListCall("backend", project, uk, ak, limit))
                full == Records(DB, project)
                want == IF limit = {} THEN full
                        ELSE LET k == CHOOSE n \in limit : TRUE IN
                             [i \in 1..(IF k < Len(full) THEN k ELSE Len(full)) |-> full[i]]
            IN /\ ls.t.ret.kind = "list"
               /\ SameList(ls.t.ret.list, want)

\* C7: store checks the keys itself on every call path: every stored record
\* was put by a store call whose user key or admin key matched the project's
\* stored keys when store checked them, and a store call (backend.store,
\* DatatopsServer.store or the HTTP route) whose keys match none of the
\* project's stored keys changes no record sequence.
C7_StoreChecksKeys ==
    /\ \A project \in Names : \A i \in 1..Len(Records(DB, project)) :
           <<project, Records(DB, project)[i]>> \in puts
    /\ \A via \in Vias, project \in Names, uk \in UserKeyInputs, ak \in AdminKeyInputs,
          data \in Payloads :
           LET r == Call(DB, StoreCall(via, project, uk, ak, data)) IN
           (\E q \in Names : Records(r.db, q) # Records(DB, q))
               => KeysMatch(DB, project, uk, ak)

\* C7 witness: a record is stored for a project whose keys one credential
\* pair matches and another does not.
C7_Witness ==
    \E project \in Names :
        /\ Records(DB, project) # <<>>
        /\ <<project, Records(DB, project)[1]>> \in puts
        /\ \E uk \in UserKeyInputs : ~KeysMatch(DB, project, uk, None)
        /\ \E uk \in UserKeyInputs : KeysMatch(DB, project, uk, None)

\* C8 (as claimed): a store call whose credentials do not authorize writing
\* to the project returns False and leaves the registry and every record
\* sequence as they were.
C8_UnauthorizedStore ==
    \A via \in Vias, project \in Names, uk \in UserKeyInputs, ak \in AdminKeyInputs,
       data \in Payloads :
        ~KeysMatch(DB, project, uk, ak) =>
            LET r == Call(DB, StoreCall(via, project, uk, ak, data)) IN
            /\ r.t.ret = RetBool(FALSE)
            /\ SameStore(r.db, DB)

\* C9 (as claimed): for a name no project was created for, both
\* authorization checks return False, store returns False without raising,
\* list_data returns an empty or absent result without raising, and none of
\* them creates a document, a registry entry or a record.
C9_NoImplicitProject ==
    \A project \in Names, uk \in UserKeyInputs, ak \in AdminKeyInputs,
       data \in Payloads, limit \in Limits :
        ~Exists(DB, project) =>
            LET w == Call(DB, WriteCheck(project, uk, ak))
                r == Call(DB, ReadCheck(project, uk, ak))
                st == Call(DB, StoreCall("backend", project, uk, ak, data))
                ls == Call(DB, ListCall("backend", project, uk, ak, limit))
            IN /\ w.t.ret = RetBool(FALSE) /\ SameStore(w.db, DB)
               /\ r.t.ret = RetBool(FALSE) /\ SameStore(r.db, DB)
               /\ st.t.ret = RetBool(FALSE) /\ SameStore(st.db, DB)
               /\ (ls.t.ret = RetNone \/ ls.t.ret = RetList(<<>>)) /\ SameStore(ls.db, DB)

\* C10: absence looks like lack of authorization: for any credentials that
\* match none of an existing project's keys, store and list_data answer the
\* same for a name that does not exist as for that project, in what the
\* backend returns and in the route's status code and body.
C10_AbsenceLooksUnauthorized ==
    \A missing \in Names, project \in Names, uk \in UserKeyInputs, ak \in AdminKeyInputs :
        (~Exists(DB, missing) /\ Exists(DB, project) /\ ~KeysMatch(DB, project, uk, ak)) =>
            /\ \A data \in Payloads \cup {NoData} :
                   LET sm == Call(DB, StoreCall("http", missing, uk, ak, data))
                       sp == Call(DB, StoreCall("http", project, uk, ak, data))
                   IN /\ sm.t.ret = sp.t.ret
                      /\ RouteResponse(sm.t) = RouteResponse(sp.t)
            /\ \A limit \in Limits :
                   LET lm == Call(DB, ListCall("http", missing, uk, ak, limit))
                       lp == Call(DB, ListCall("http", project, uk, ak, limit))
                   IN /\ lm.t.ret = lp.t.ret
                      /\ RouteResponse(lm.t) = RouteResponse(lp.t)

\* C10 witness: one project exists with a stored record, another name does
\* not exist, and a store with a wrong key is refused with 403 for both.
C10_Witness ==
    \E missing \in Names, project \in Names, uk \in UserKeys :
        /\ ~Exists(DB, missing) /\ Exists(DB, project)
        /\ Records(DB, project) # <<>>
        /\ ~KeysMatch(DB, project, uk, None)
        /\ RouteResponse(Call(DB, StoreCall("http", missing, uk, None,
                                             CHOOSE d \in Payloads : TRUE)).t).code = 403
        /\ RouteResponse(Call(DB, StoreCall("http", project, uk, None,
                                             CHOOSE d \in Payloads : TRUE)).t).code = 403

\* C11: a server constructed with a creation secret answers a create-project
\* request whose secret header is absent or different without calling
\* backend.create_project and without changing anything stored; a server
\* constructed without a secret answers the same whatever the header holds,
\* and a request with a body and a project name gets what
\* backend.create_project returns and does.
C11_CreationSecretGate ==
    \A secret \in Secrets, has_json \in BOOLEAN, project \in Names \cup {None},
       header \in SecretHeaders, keys \in KeyDraws :
        LET r == Call(DB, CreateRequest(secret, has_json, project, header, keys))
            bare == Call(DB, CreateRequest(secret, has_json, project, None, keys))
            direct == Call(DB, CreateCall(project, keys))
        IN /\ (Truthy(secret) /\ header # secret) =>
                  /\ r.t.ret.kind = "nocall"
                  /\ SameStore(r.db, DB)
           /\ ~Truthy(secret) =>
                  /\ r.t.ret = bare.t.ret /\ r.db = bare.db
                  /\ (has_json /\ project # None) =>
                         /\ r.t.ret.kind # "nocall"
                         /\ r.t.ret = direct.t.ret /\ r.db = direct.db

\* C11 witness: a project was created, and for a name that does not exist a
\* server with a secret turns a request with a wrong header away and creates
\* the project for a request with the right one.
C11_Witness ==
    \E project \in Names, other \in Names, keys \in KeyDraws :
        /\ Exists(DB, project) /\ ~Exists(DB, other)
        /\ Call(DB, CreateRequest("s3cret", TRUE, other, "guess", keys)).t.ret.kind = "nocall"
        /\ Call(DB, CreateRequest("s3cret", TRUE, other, "s3cret", keys)).t.ret.kind = "dict"

\* C12 (as claimed): every create-project request is answered by one of two
\* envelopes: status "success" with the descriptor {name, user_key,
\* admin_key} of the project it created, or status "error" with a message,
\* for every failure (secret mismatch, no body, no project name, name taken).
C12_CreateEnvelope ==
    \A secret \in Secrets, has_json \in BOOLEAN, project \in Names \cup {None},
       header \in SecretHeaders, keys \in KeyDraws :
        LET r == Call(DB, CreateRequest(secret, has_json, project, header, keys))
            resp == RouteResponse(r.t)
        IN \/ /\ resp.status = "success"
              /\ resp.data = JsonObject([name |-> project, user_key |-> keys[1],
                                         admin_key |-> keys[2]])
              /\ Entries(r.db, project) = {resp.data.array[1]}
           \/ /\ resp.status = "error"
              /\ resp.message # ""
              /\ SameStore(r.db, DB)

\* C13 (as claimed): the list-records result is always a sequence: for every
\* project name, credential pair and limit, unauthorized credentials and
\* nonexistent projects included, DatatopsServer.list_data returns a
\* (possibly empty) list and the response's data field is an array, never
\* null or absent, on either backend.
C13_ListAlwaysSequence ==
    \A via \in {"server", "http"}, project \in Names, uk \in UserKeyInputs,
       ak \in AdminKeyInputs, limit \in Limits :
        LET r == Call(DB, ListCall(via, project, uk, ak, limit)) IN
        /\ r.t.ret.kind = "list"
        /\ RouteResponse(r.t).data.json = "array"

\* a is a prefix of b.
IsPrefix(a, b) ==
    /\ Len(a) <= Len(b)
    /\ \A i \in 1..Len(a) : a[i] = b[i]

\* Every create_project, store, list_data, authorization and list_projects
\* call a caller of the backend can make.
BackendCalls ==
    {CreateCall(project, keys) : project \in Names, keys \in KeyDraws}
    \cup {StoreCall("backend", project, uk, ak, data) :
            project \in Names, uk \in UserKeyInputs, ak \in AdminKeyInputs, data \in Payloads}
    \cup {ListCall("backend", project, uk, ak, limit) :
            project \in Names, uk \in UserKeyInputs, ak \in AdminKeyInputs, limit \in Limits}
    \cup {WriteCheck(project, uk, ak) :
            project \in Names, uk \in UserKeyInputs, ak \in AdminKeyInputs}
    \cup {ReadCheck(project, uk, ak) :
            project \in Names, uk \in UserKeyInputs, ak \in AdminKeyInputs}
    \cup {ListProjectsCall}

\* C14 (as claimed): records are immutable and projects append-only: no
\* create_project, store, list_data, list_projects or authorization call
\* removes, replaces, reorders or modifies a stored record: each project's
\* record sequence before the call is a prefix of its record sequence after
\* it, on either backend.
C14_AppendOnly ==
    \A t \in BackendCalls : \A project \in Names :
        IsPrefix(Records(DB, project), Records(Call(DB, t).db, project))

\* C15: delete_project fails with NotImplementedError on both backends for
\* every project name and admin key, existing or not, list_projects on the
\* table backend fails with NotImplementedError too, and neither changes a
\* stored project or record.
C15_NotImplemented ==
    /\ \A project \in Names, ak \in AdminKeyInputs :
           LET r == Call(DB, DeleteCall(project, ak)) IN
           /\ r.t.ret = RetRaise("NotImplementedError")
           /\ SameStore(r.db, DB)
    /\ backend = "dynamodb" =>
           LET r == Call(DB, ListProjectsCall) IN
           /\ r.t.ret = RetRaise("NotImplementedError")
           /\ SameStore(r.db, DB)

\* C15 witness: on the table backend a project with a stored record exists,
\* and delete_project with its admin key and list_projects both raise.
C15_Witness ==
    /\ backend = "dynamodb"
    /\ \E project \in Names : \E e \in Entries(DB, project) :
           /\ Records(DB, project) # <<>>
           /\ Call(DB, DeleteCall(project, e.admin_key)).t.ret.kind = "raise"
           /\ Call(DB, ListProjectsCall).t.ret.kind = "raise"

\* C16 (as claimed): create_project alone yields a usable empty project:
\* right after it returned a descriptor, with the returned user key, the
\* returned admin key or both, list_data returns an empty sequence,
\* is_authorized_to_write and is_authorized_to_read return True and store
\* returns True.
C16_UsableAfterCreate ==
    \A project \in Names, keys \in KeyDraws :
        LET c == Call(DB, CreateCall(project, keys)) IN
        c.t.ret.kind = "dict" =>
            \A cred \in {<<c.t.ret.dict.user_key, None>>,
                         <<None, c.t.ret.dict.admin_key>>,
                         <<c.t.ret.dict.user_key, c.t.ret.dict.admin_key>>} :
                /\ Call(c.db, ListCall("backend", project, cred[1], cred[2], {})).t.ret
                       = RetList(<<>>)
                /\ Call(c.db, WriteCheck(project, cred[1], cred[2])).t.ret = RetBool(TRUE)
                /\ Call(c.db, ReadCheck(project, cred[1], cred[2])).t.ret = RetBool(TRUE)
                /\ \A data \in Payloads :
                       Call(c.db, StoreCall("backend", project, cred[1], cred[2], data)).t.ret
                           = RetBool(TRUE)

\* ------------------------------------------------------------------ PairSpec: both backends side by side
\* A JSONFileBackend and a DynamoDBBackend, both empty at first, are given
\* the same calls in the same order and draw the same keys.
JsonView == [DB EXCEPT !.backend = "json"]
TableView == [DB EXCEPT !.backend = "dynamodb"]

\* Call t is made on both backends.
OnBoth(t) ==
    \E a \in {Call(JsonView, t)}, b \in {Call(TableView, t)} :
        /\ fs' = a.db.fs
        /\ project_table' = b.db.project_table
        /\ data_table' = b.db.data_table

PairCreateProject ==
    /\ \E project \in Names, keys \in KeyDraws : OnBoth(CreateCall(project, keys))
    /\ UNCHANGED <<backend, now, th, ncalls, puts, attempted, tables, ctor, td>>

PairStore ==
    /\ StoredCount(JsonView) < MaxRecords
    /\ StoredCount(TableView) < MaxRecords
    /\ \E project \in Names, uk \in UserKeyInputs, ak \in AdminKeyInputs, data \in Payloads :
         OnBoth(StoreCall("backend", project, uk, ak, data))
    /\ UNCHANGED <<backend, now, th, ncalls, puts, attempted, tables, ctor, td>>

PairQuery ==
    /\ \E project \in Names, uk \in UserKeyInputs, ak \in AdminKeyInputs :
         \/ OnBoth(ListCall("backend", project, uk, ak, {}))
         \/ OnBoth(WriteCheck(project, uk, ak))
         \/ OnBoth(ReadCheck(project, uk, ak))
    /\ UNCHANGED <<backend, now, th, ncalls, puts, attempted, tables, ctor, td>>

PairNext ==
    \/ PairCreateProject
    \/ PairStore
    \/ PairQuery
    \/ Tick

PairSpec == Init /\ [][PairNext]_vars

\* ------------------------------------------------------------------ TableSpec: the tables of the table backend
\* A project item a table created earlier already holds.
ExistingProject == [name |-> "alpha", user_key |-> "uk1", admin_key |-> "a-1"]

\* The table backend is about to be constructed: each table is absent, being
\* created by someone else, or active from an earlier run.
TableInit ==
    /\ backend = "dynamodb"
    /\ fs = [n \in Names |-> AbsentFile]
    /\ tables \in [TableNames -> {"absent", "creating", "active"}]
    /\ project_table \in IF tables["project"] = "active" THEN {{}, {ExistingProject}}
                         ELSE {{}}
    /\ data_table = {}
    /\ now = 0
    /\ th = [i \in Threads |-> IdleCall]
    /\ ncalls = 0
    /\ puts = {}
    /\ attempted = {}
    /\ ctor = "ct_list_data"
    /\ td = NoTeardown

\* _dynamodb_table_exists: the name is among the names list_tables returned
\* (its first page: at most 100 of the account's tables).
_dynamodb_table_exists(tbls, name, first_page) == tbls[name] # "absent" /\ first_page

\* A waiter that returns before the table is active.
waiter_returns_at_once(status) == TRUE

\* get_waiter("table_exists").wait / Table.wait_until_exists: returns once
\* the table is active.
table_exists_waiter(status) == status = "active"

\* _create_dynamo_table up to its waiter: create_table refuses a name that is
\* in use.
_create_dynamo_table(tbls, name, next) ==
    IF tbls[name] # "absent" THEN [tables |-> tbls, pc |-> "raised"]
    ELSE [tables |-> [tbls EXCEPT ![name] = "creating"], pc |-> next]

\* A waiter: on when the table is active, WaiterError when it gave up, else
\* still waiting.
wait(tbls, pc, name, next, gave_up) ==
    IF table_exists_waiter(tbls[name]) THEN [tables |-> tbls, pc |-> next]
    ELSE IF gave_up THEN [tables |-> tbls, pc |-> "raised"]
    ELSE [tables |-> tbls, pc |-> pc]

\* DynamoDBBackend.__init__, step by step.
dy_init(tbls, pc, first_page, gave_up) ==
    CASE pc = "ct_list_data" ->
           [tables |-> tbls,
            pc |-> IF _dynamodb_table_exists(tbls, "data", first_page)
                   THEN "ct_list_project" ELSE "ct_create_data"]
      [] pc = "ct_create_data" -> _create_dynamo_table(tbls, "data", "ct_wait_data")
      [] pc = "ct_wait_data" -> wait(tbls, pc, "data", "ct_list_project", gave_up)
      [] pc = "ct_list_project" ->
           [tables |-> tbls,
            pc |-> IF _dynamodb_table_exists(tbls, "project", first_page)
                   THEN "ct_until_data" ELSE "ct_create_project"]
      [] pc = "ct_create_project" -> _create_dynamo_table(tbls, "project", "ct_wait_project")
      [] pc = "ct_wait_project" -> wait(tbls, pc, "project", "ct_until_data", gave_up)
      [] pc = "ct_until_data" -> wait(tbls, pc, "data", "ct_until_project", gave_up)
      [] pc = "ct_until_project" -> wait(tbls, pc, "project", "constructed", gave_up)

\* The constructor takes its next step.
Construct ==
    /\ ctor \notin {"constructed", "raised"}
    /\ \E first_page \in BOOLEAN, gave_up \in BOOLEAN :
         LET r == dy_init(tables, ctor, first_page, gave_up) IN
         /\ tables' = r.tables
         /\ ctor' = r.pc
    /\ UNCHANGED <<backend, fs, project_table, data_table, now, th, ncalls, puts,
                   attempted, td>>

\* DynamoDB finishes creating a table.
TableReady ==
    /\ \E name \in TableNames :
         /\ tables[name] = "creating"
         /\ tables' = [tables EXCEPT ![name] = "active"]
    /\ UNCHANGED <<backend, fs, project_table, data_table, now, th, ncalls, puts,
                   attempted, ctor, td>>

\* The values the confirmation flag is passed.
Flags == {"default", "False", "True"}

\* The drop-both-tables operation at pc, called with the flag.
Td(pc, yes_im_sure) == [pc |-> pc, yes_im_sure |-> yes_im_sure]

\* A drop-both-tables operation that does not look at its flag.
teardown_unguarded(yes_im_sure) == TRUE

\* `if not yes_im_sure` does not return: the flag is true (its default is False).
teardown_confirmed(yes_im_sure) == yes_im_sure = "True"

\* _teardown_tables_for_debug_only_this_is_so_dangerous_dont_use_this_function
\* is called on the constructed backend: it prints and returns, or goes on to
\* delete.
Teardown ==
    /\ ctor = "constructed"
    /\ td.pc \in {"idle", "printed"}
    /\ \E yes_im_sure \in Flags :
         td' = IF teardown_confirmed(yes_im_sure) THEN Td("td_delete_data", yes_im_sure)
               ELSE Td("printed", yes_im_sure)
    /\ UNCHANGED <<backend, fs, project_table, data_table, now, th, ncalls, puts,
                   attempted, tables, ctor>>

\* The drop-both-tables operation takes its next step: Table.delete() of the
\* data table, of the project table, then the two waits.
TeardownStep ==
    /\ \/ /\ td.pc = "td_delete_data"
          /\ IF tables["data"] = "absent"
             THEN /\ td' = [td EXCEPT !.pc = "raised"]
                  /\ UNCHANGED <<tables, data_table, project_table>>
             ELSE /\ td' = [td EXCEPT !.pc = "td_delete_project"]
                  /\ tables' = [tables EXCEPT !["data"] = "absent"]
                  /\ data_table' = {}
                  /\ UNCHANGED project_table
       \/ /\ td.pc = "td_delete_project"
          /\ IF tables["project"] = "absent"
             THEN /\ td' = [td EXCEPT !.pc = "raised"]
                  /\ UNCHANGED <<tables, data_table, project_table>>
             ELSE /\ td' = [td EXCEPT !.pc = "td_wait"]
                  /\ tables' = [tables EXCEPT !["project"] = "absent"]
                  /\ project_table' = {}
                  /\ UNCHANGED data_table
       \/ /\ td.pc = "td_wait"
          /\ \A name \in TableNames : tables[name] = "absent"
          /\ td' = [td EXCEPT !.pc = "returned"]
          /\ UNCHANGED <<tables, data_table, project_table>>
    /\ UNCHANGED <<backend, fs, now, th, ncalls, puts, attempted, ctor>>

\* The calls made on the constructed backend, by the contract and by the routes.
TableCalls ==
    {NewCall("create_project", via, project, None, None, EmptyDict, {}, "uk2", "a-2") :
        via \in {"backend", "http"}, project \in {"alpha", "beta"}}
    \cup
    {NewCall(op, "backend", "alpha", uk, None, NoData, {}, "uk1", "a-1") :
        op \in {"is_authorized_to_write", "is_authorized_to_read", "delete_project",
                "list_projects"},
        uk \in {"uk1"}}
    \cup
    {NewCall("store", via, "alpha", "uk1", None, data, {}, "uk1", "a-1") :
        via \in Vias, data \in {d \in Payloads : DOMAIN d = {"x"}}}
    \cup
    {NewCall("list_data", "http", "alpha", None, "a-1", NoData, {}, "uk1", "a-1")}

\* A call is made on the constructed backend and runs to its return.
TableCall ==
    /\ ctor = "constructed"
    /\ \E t \in TableCalls :
         /\ t.op = "store" => StoredCount(DB) < MaxRecords
         /\ \E r \in {TrackedRun(DB, Enter(DB, t))} :
              /\ project_table' = r.db.project_table
              /\ data_table' = r.db.data_table
              /\ th' = [th EXCEPT ![1] = r.t]
              /\ puts' = PutsAfter(r.t)
    /\ UNCHANGED <<backend, fs, now, ncalls, attempted, tables, ctor, td>>

TableNext ==
    \/ Construct
    \/ TableReady
    \/ Teardown
    \/ TeardownStep
    \/ TableCall
    \/ Tick

TableSpec == TableInit /\ [][TableNext]_vars

\* Two records equal but for the injected timestamp and partition-key fields.
SameButInjected(a, b) ==
    LET injected == {DATATOPS_TIMESTAMP_KEY, DATATOPS_PRIMARY_KEY} IN
    /\ (DOMAIN a) \ injected = (DOMAIN b) \ injected
    /\ \A f \in (DOMAIN a) \ injected : PyEq(a[f], b[f])

\* Two results a caller cannot tell apart but for the injected fields.
SameOutcome(a, b) ==
    /\ a.kind = b.kind /\ a.dict = b.dict /\ a.exc = b.exc
    /\ Len(a.list) = Len(b.list)
    /\ \A i \in 1..Len(a.list) : SameButInjected(a.list[i], b.list[i])

\* C17 (as claimed): given the same sequence of create_project, store,
\* list_data, is_authorized_to_write and is_authorized_to_read calls from
\* empty, with the same keys drawn, the file backend and the table backend
\* return the same result and the same record sequence for every call, up to
\* the injected timestamp and partition-key fields.
C17_BackendsAgree ==
    \A t \in BackendCalls \ {ListProjectsCall} :
        SameOutcome(Call(JsonView, t).t.ret, Call(TableView, t).t.ret)

\* C18 (as claimed): read and write authorization are symmetric in each
\* backend: for every project name and credential pair,
\* is_authorized_to_read returns the same boolean as is_authorized_to_write.
C18_ReadWriteSymmetric ==
    \A project \in Names, uk \in UserKeyInputs, ak \in AdminKeyInputs :
        LET w == Call(DB, WriteCheck(project, uk, ak)).t.ret
            r == Call(DB, ReadCheck(project, uk, ak)).t.ret
        IN /\ w.kind \in {"true", "false"}
           /\ r = w

\* What a caller holding other credentials may put in a key channel: a
\* key of the other channel, or the creation secret.
ForeignKeys(e) == {e.user_key, e.admin_key} \cup (Secrets \ {None})

\* C19: a key authorizes only in its own channel: a project's admin key
\* presented as user_key, its user key presented as admin_key, or the
\* creation secret in either channel, with the other channel absent or
\* wrong, authorizes neither store nor list_data: the checks return False,
\* store returns False and changes nothing, list_data returns no record.
C19_ChannelsIndependent ==
    \A project \in Names : \A e \in Entries(DB, project) :
        \A uk \in ForeignKeys(e) \cup UserKeyInputs, ak \in ForeignKeys(e) \cup AdminKeyInputs :
            (uk # e.user_key /\ ak # e.admin_key) =>
                /\ Call(DB, WriteCheck(project, uk, ak)).t.ret = RetBool(FALSE)
                /\ Call(DB, ReadCheck(project, uk, ak)).t.ret = RetBool(FALSE)
                /\ \A via \in Vias, data \in Payloads :
                       LET r == Call(DB, StoreCall(via, project, uk, ak, data)) IN
                       r.t.ret = RetBool(FALSE) /\ SameStore(r.db, DB)
                /\ \A via \in Vias :
                       LET r == Call(DB, ListCall(via, project, uk, ak, {})) IN
                       r.t.ret = RetNone \/ r.t.ret = RetList(<<>>)

\* C19 witness: a project holds a record, and both its admin key in the
\* user-key channel and its user key in the admin-key channel are refused.
C19_Witness ==
    \E project \in Names : \E e \in Entries(DB, project) :
        /\ Records(DB, project) # <<>>
        /\ Call(DB, StoreCall("http", project, e.admin_key, None,
                              CHOOSE d \in Payloads : TRUE)).t.ret = RetBool(FALSE)
        /\ Call(DB, ListCall("http", project, None, e.user_key, {})).t.ret.kind
               \in {"none", "list"}
        /\ Call(DB, WriteCheck(project, e.admin_key, e.user_key)).t.ret = RetBool(FALSE)

\* C20 (as claimed): on the file backend list_projects returns the names of
\* the projects create_project returned a descriptor for, each once, in
\* creation order, and an empty list when none was created: it is a list
\* without repetition, a create_project that returns a descriptor appends
\* its name to it, and no other create_project, store, list_data or
\* authorization call changes it.
C20_ListProjects ==
    backend = "json" =>
        LET before == Call(DB, ListProjectsCall).t.ret IN
        /\ before.kind = "list"
        /\ \A i \in 1..Len(before.list), j \in 1..Len(before.list) :
               before.list[i] = before.list[j] => i = j
        /\ attempted = {} => before.list = <<>>
        /\ \A t \in BackendCalls :
               LET r == Call(DB, t)
                   after == Call(r.db, ListProjectsCall).t.ret
               IN IF t.op = "create_project" /\ r.t.ret.kind = "dict"
                  THEN after = RetList(Append(before.list, t.project))
                  ELSE after = before

\* Both request threads have returned from a call of the operation on the
\* file backend.
BothReturned(op) ==
    /\ backend = "json"
    /\ \A i \in Threads : th[i].op = op /\ th[i].pc = "done"

\* C21: the file backend loses updates of concurrent writers. When two store
\* calls on one project have both returned true after reading the same
\* record sequence, the project's document holds that sequence and the
\* record of one of the two calls only; when two create_project calls for
\* different names have both returned a descriptor after reading the same
\* registry, the registry holds the entry of one of the two only.
C21_LostUpdate ==
    /\ (/\ BothReturned("store")
        /\ th[1].project = th[2].project
        /\ th[1].ret = RetBool(TRUE) /\ th[2].ret = RetBool(TRUE)
        /\ Len(th[1].project_data) = Len(th[2].project_data))
       => /\ FileRecords(DB, th[1].project) \in {th[1].project_data, th[2].project_data}
          /\ Len(FileRecords(DB, th[1].project)) = Len(th[1].project_data)
    /\ (/\ BothReturned("create_project")
        /\ th[1].project # th[2].project
        /\ th[1].ret.kind = "dict" /\ th[2].ret.kind = "dict"
        /\ th[1].projects = th[2].projects)
       => /\ RegistryEntries(DB) \in {Append(th[i].projects, th[i].ret.dict) : i \in Threads}
          /\ Len(RegistryEntries(DB)) = Len(th[1].projects) + 1

\* C21 witness: two store calls on one project that read the same record
\* sequence have both returned true, and the project's document holds one
\* record more than they read, not two.
C21_Witness ==
    /\ BothReturned("store")
    /\ th[1].project = th[2].project
    /\ th[1].ret = RetBool(TRUE) /\ th[2].ret = RetBool(TRUE)
    /\ Len(th[1].project_data) = Len(th[2].project_data)
    /\ Len(FileRecords(DB, th[1].project)) = Len(th[1].project_data)

\* Two create_project calls for different names that read the same registry
\* have both returned a descriptor, and the registry holds one of the two
\* entries only.
C21_RegistryWitness ==
    /\ BothReturned("create_project")
    /\ th[1].project # th[2].project
    /\ th[1].ret.kind = "dict" /\ th[2].ret.kind = "dict"
    /\ th[1].projects = th[2].projects
    /\ Len(RegistryEntries(DB)) = Len(th[1].projects) + 1

\* C22: on the table backend every item of the records table was put by a
\* store call authorized for the project its partition-key field names, and
\* its timestamp field is an integer of the backend's clock; a store that
\* returns true, by any call path and whatever the payload carries in the
\* two fields, puts an item with the partition key set to the project of the
\* call and the timestamp set to the clock's epoch second, and leaves the
\* record sequence of every other project as it was.
C22_ItemKeysSetByBackend ==
    backend = "dynamodb" =>
        /\ \A item \in data_table :
               /\ \E project \in Names :
                      /\ item[DATATOPS_PRIMARY_KEY] = StrV(project)
                      /\ <<project, item>> \in puts
               /\ item[DATATOPS_TIMESTAMP_KEY].t = "int"
               /\ item[DATATOPS_TIMESTAMP_KEY].n \in 0..now
        /\ \A via \in Vias, project \in Names, data \in Payloads :
               \A e \in Entries(DB, project) :
                   LET r == Call(DB, StoreCall(via, project, e.user_key, None, data)) IN
                   r.t.ret = RetBool(TRUE) =>
                       /\ \E item \in r.db.data_table :
                              /\ item[DATATOPS_PRIMARY_KEY] = StrV(project)
                              /\ item[DATATOPS_TIMESTAMP_KEY] = IntV(now)
                              /\ \A f \in (DOMAIN data) \ ReservedFields(DB) :
                                     item[f] = data[f]
                       /\ \A q \in Names \ {project} : Records(r.db, q) = Records(DB, q)

\* C22 witness: the records table holds an item stored for one project from
\* a payload that named another project in the partition-key field and
\* carried a timestamp string of its own.
C22_Witness ==
    /\ backend = "dynamodb"
    /\ \E item \in data_table, data \in Payloads :
           /\ DictHas(data, DATATOPS_PRIMARY_KEY, StrV("beta"))
           /\ DATATOPS_TIMESTAMP_KEY \in DOMAIN data
           /\ item["x"] = data["x"]
           /\ item[DATATOPS_PRIMARY_KEY] = StrV("alpha")
           /\ item[DATATOPS_TIMESTAMP_KEY].t = "int"

\* A step of the constructor leaves every table that is not absent, and its
\* items, as they are.
CtorKeepsExistingTables ==
    ctor' # ctor =>
        /\ \A name \in TableNames : tables[name] # "absent" => tables'[name] = tables[name]
        /\ project_table' = project_table
        /\ data_table' = data_table

\* Both tables are active, and no call was answered that a table is missing.
TablesThere ==
    /\ \A name \in TableNames : tables[name] = "active"
    /\ \A i \in Threads : th[i].ret.exc # "ResourceNotFoundException"

SomethingDeleted ==
    \/ \E name \in TableNames : tables[name] # "absent" /\ tables'[name] = "absent"
    \/ ~({i.name : i \in project_table} \subseteq {i.name : i \in project_table'})
    \/ ~({DataKey(i) : i \in data_table} \subseteq {DataKey(i) : i \in data_table'})

\* C24: the drop-both-tables operation of the table backend called with its
\* flag left at the default or set to false changes neither table nor any
\* item, and no other step deletes a table or an item: not the constructor,
\* not a method of the backend contract, not a route of the server. A table
\* or an item goes only in a step of the operation called with the flag true.
C24_DropOnlyWhenConfirmed ==
    /\ [][(td' # td /\ td'.yes_im_sure # "True")
              => UNCHANGED <<tables, project_table, data_table>>]_vars
    /\ [][SomethingDeleted
              => /\ td.yes_im_sure = "True"
                 /\ td.pc \in {"td_delete_data", "td_delete_project"}
                 /\ td'.pc # td.pc]_vars

\* C24 witness: the operation was called on the constructed backend without
\* the flag set and has printed and returned; both tables are active and the
\* items stored before the call are held.
C24_Witness ==
    /\ ctor = "constructed"
    /\ td.pc = "printed" /\ td.yes_im_sure \in {"default", "False"}
    /\ \A name \in TableNames : tables[name] = "active"
    /\ ExistingProject \in project_table
    /\ data_table # {}

\* The operation was called with the flag true and has returned: both
\* tables are gone.
C24_Dropped ==
    /\ td = Td("returned", "True")
    /\ \A name \in TableNames : tables[name] = "absent"
    /\ project_table = {} /\ data_table = {}

\* C25 (as claimed): on the file backend, create_project for a name never
\* tried before, the name "projects" included, returns a descriptor and
\* leaves the registry document holding a {"projects": [...]} list, and no
\* create_project, authorization check or list_projects made afterwards, for
\* any name, raises.
C25_RegistryPathApart ==
    backend = "json" =>
        \A project \in Names, keys \in KeyDraws :
            project \notin attempted =>
                LET r == Call(DB, CreateCall(project, keys)) IN
                /\ r.t.ret.kind = "dict"
                /\ r.db.fs[REGISTRY].st = "json" /\ r.db.fs[REGISTRY].key = "projects"
                /\ \A other \in Names :
                       /\ Call(r.db, CreateCall(other, keys)).t.ret.kind # "raise"
                       /\ Call(r.db, WriteCheck(other, keys[1], None)).t.ret.kind # "raise"
                       /\ Call(r.db, ReadCheck(other, None, keys[2])).t.ret.kind # "raise"
                       /\ Call(r.db, ListProjectsCall).t.ret.kind # "raise"

\* C26 (as claimed): on the file backend, in every state, those between the
\* steps of interleaved calls included, the document of a name exists if and
\* only if the registry holds exactly one entry for the name, and no
\* authorization check for a name whose document exists raises.
C26_DocumentIffEntry ==
    backend = "json" =>
        \A project \in Names :
            /\ _project_exists(DB, project) <=> EntryCount(DB, project) = 1
            /\ _project_exists(DB, project) =>
                   \A e \in Entries(DB, project) \cup {NoProject} :
                       /\ Call(DB, WriteCheck(project, e.user_key, None)).t.ret.kind # "raise"
                       /\ Call(DB, ReadCheck(project, None, e.admin_key)).t.ret.kind # "raise"

\* C27 (as claimed): once a create_project call has returned a descriptor,
\* whatever create_project calls ran alongside it, a store for the
\* descriptor's name with its user key alone returns true and a store with
\* its admin key alone returns true (here: made while no other call is
\* running).
C27_ReturnedKeysEnforced ==
    \A i \in Threads :
        (/\ th[i].op = "create_project" /\ th[i].ret.kind = "dict"
         /\ \A j \in Threads : th[j].pc = "done")
        => \A data \in Payloads :
               LET d == th[i].ret.dict IN
               /\ Call(DB, StoreCall("backend", d.name, d.user_key, None, data)).t.ret
                      = RetBool(TRUE)
               /\ Call(DB, StoreCall("backend", d.name, None, d.admin_key, data)).t.ret
                      = RetBool(TRUE)

\* The registry as stored: the registry document, the project table.
SameRegistry(a, b) == a.fs[REGISTRY] = b.fs[REGISTRY] /\ a.project_table = b.project_table

\* C28: a store that returns true changes the record sequence of its own
\* project only: the registry (every project's name and keys) and the
\* documents and record sequences of all other projects are the same before
\* and after it, by every call path and on both backends.
C28_StoreFrame ==
    \A via \in Vias, project \in Names, data \in Payloads :
        \A e \in Entries(DB, project) :
            \A keys \in {<<e.user_key, None>>, <<None, e.admin_key>>} :
                LET r == Call(DB, StoreCall(via, project, keys[1], keys[2], data)) IN
                r.t.ret = RetBool(TRUE) =>
                    /\ SameRegistry(r.db, DB)
                    /\ \A q \in Names \ {project} :
                           /\ Records(r.db, q) = Records(DB, q)
                           /\ r.db.fs[q] = DB.fs[q]

\* C28 witness: two projects exist, one holds a record, and a store for the
\* other returns true.
C28_Witness ==
    \E p \in Names, q \in Names :
        /\ p # q
        /\ Records(DB, q) # <<>>
        /\ \E e \in Entries(DB, p) :
               Call(DB, StoreCall("http", p, e.user_key, None,
                                  CHOOSE d \in Payloads : TRUE)).t.ret = RetBool(TRUE)

\* C29 (as claimed): create_project, for any name and whatever it answers,
\* leaves the keys and the record sequence of every project that existed
\* before the call as they were, and a create_project that does not return a
\* descriptor changes nothing stored.
C29_CreateFrame ==
    \A project \in Names, keys \in KeyDraws :
        LET r == Call(DB, CreateCall(project, keys)) IN
        /\ \A q \in Names :
               Exists(DB, q) => /\ Entries(r.db, q) = Entries(DB, q)
                                /\ Records(r.db, q) = Records(DB, q)
        /\ r.t.ret.kind # "dict" => SameStore(r.db, DB)

\* Under interleaved calls: no step takes away or changes the entry of a
\* project that exists (the project item of the table backend, the registry
\* entry of the file backend while the registry is being rewritten or after).
C29_NoEntryOverwritten ==
    [][/\ backend = "dynamodb" => \A i \in project_table : i \in project_table'
       /\ (backend = "json" /\ fs'[REGISTRY].st = "json") =>
              \A j \in 1..Len(RegistryEntries(DB)) :
                  \E k \in 1..Len(fs'[REGISTRY].items) :
                      fs'[REGISTRY].items[k] = RegistryEntries(DB)[j]]_vars

\* C30 (as claimed): on the file backend a list_data or an authorization
\* check made while a store or a create_project is writing the same
\* documents reads what a document held before the write or what it holds
\* after it: no list_data call has failed on a document that was truncated
\* and not yet rewritten, and no authorization check made in any state,
\* between the steps of a writer included, fails on one.
C30_ReadersSeeWholeDocuments ==
    backend = "json" =>
        /\ \A i \in Threads :
               (th[i].op = "list_data" /\ th[i].pc = "done")
                   => th[i].ret.exc # "JSONDecodeError"
        /\ \A project \in Names :
               /\ Call(DB, WriteCheck(project, None, None)).t.ret.exc # "JSONDecodeError"
               /\ Call(DB, ReadCheck(project, None, None)).t.ret.exc # "JSONDecodeError"

\* Call t made on a DatatopsServer constructed with the creation secret, by a
\* request that carries the secret header.
WithSecret(t, secret, header) ==
    [t EXCEPT !.project_creation_secret = secret, !.secret_header = header]

\* A configured creation secret and a creation-secret header that differ
\* from none and none: a secret without the header, with a wrong header,
\* with the right header, and a header without a secret.
GateInputs ==
    {<<"s3cret", None>>, <<"s3cret", "guess">>, <<"s3cret", "s3cret">>, <<None, "guess">>}

\* The payload as DatatopsServer.store hands it to the backend.
Stamped(db, data) == DictSet(data, DATATOPS_TIMESTAMP_KEY, IsoV(db.now))

\* C31: the orchestrator passes store and list_data straight through:
\* DatatopsServer.list_data and the list route return, and change, what
\* backend.list_data does for the same arguments; DatatopsServer.store and
\* the store route of a request with a payload return, and change, what
\* backend.store does for the same arguments with the timestamp field set on
\* the payload; and neither depends on the creation secret the server was
\* constructed with or on the creation-secret header of the request.
C31_PassThrough ==
    \A project \in Names :
        \A e \in Entries(DB, project) \cup {NoProject} :
            \A keys \in IF e = NoProject THEN {<<None, e.admin_key>>}
                        ELSE {<<e.user_key, None>>, <<None, e.admin_key>>} :
                /\ \A limit \in Limits :
                       LET b == Call(DB, ListCall("backend", project, keys[1], keys[2],
                                                  limit))
                           PassedThrough(ls) ==
                               LET s == Call(DB, ls) IN s.t.ret = b.t.ret /\ s.db = b.db
                       IN /\ PassedThrough(ListCall("server", project, keys[1], keys[2],
                                                    limit))
                          /\ limit = {} =>
                                 \A g \in GateInputs \cup {<<None, None>>} :
                                     PassedThrough(WithSecret(
                                         ListCall("http", project, keys[1], keys[2], limit),
                                         g[1], g[2]))
                /\ \A data \in Payloads :
                       LET b == Call(DB, StoreCall("backend", project, keys[1], keys[2],
                                                   Stamped(DB, data)))
                           PassedThrough(st) ==
                               LET s == Call(DB, st)
                               IN s.t.ret = b.t.ret /\ s.db = b.db /\ s.t.data = b.t.data
                       IN /\ PassedThrough(StoreCall("server", project, keys[1], keys[2],
                                                     data))
                          /\ DOMAIN data = {"x"} =>
                                 \A g \in GateInputs \cup {<<None, None>>} :
                                     PassedThrough(WithSecret(
                                         StoreCall("http", project, keys[1], keys[2], data),
                                         g[1], g[2]))

\* C31 witness: a project holds a record; list_data through the orchestrator
\* returns it as the backend does, and a store through the orchestrator by a
\* request without the secret header, on a server constructed with a
\* secret, returns true as the backend does.
C31_Witness ==
    \E project \in Names : \E e \in Entries(DB, project) :
        /\ Records(DB, project) # <<>>
        /\ Call(DB, ListCall("server", project, None, e.admin_key, {})).t.ret.kind = "list"
        /\ Call(DB, ListCall("server", project, None, e.admin_key, {})).t.ret
               = Call(DB, ListCall("backend", project, None, e.admin_key, {})).t.ret
        /\ Call(DB, WithSecret(StoreCall("server", project, e.user_key, None,
                                         CHOOSE d \in Payloads : TRUE),
                               "s3cret", None)).t.ret = RetBool(TRUE)

\* The response is the error envelope {status: "error", message} with code 400.
IsErrorEnvelope400(resp) ==
    /\ resp.code = 400
    /\ resp.status = "error" /\ resp.message # ""
    /\ resp.error = ""

\* C32 (as claimed): a create-project request that names no project and a
\* store request without a JSON payload are each answered with the envelope
\* {status: "error", message} and code 400, without calling the backend's
\* create_project or store and without changing anything stored.
C32_MalformedRejected ==
    /\ \A secret \in Secrets, has_json \in BOOLEAN, header \in SecretHeaders,
          keys \in KeyDraws :
           LET r == Call(DB, CreateRequest(secret, has_json, None, header, keys)) IN
           /\ IsErrorEnvelope400(RouteResponse(r.t))
           /\ r.t.ret.kind = "nocall"
           /\ SameStore(r.db, DB)
    /\ \A project \in Names, uk \in UserKeyInputs, ak \in AdminKeyInputs :
           LET r == Call(DB, StoreCall("http", project, uk, ak, NoData)) IN
           /\ IsErrorEnvelope400(RouteResponse(r.t))
           /\ r.t.ret.kind = "nocall"
           /\ SameStore(r.db, DB)

\* ------------------------------------------------------------------ the client
\* What Datatops.create_project comes to: the Project it returns or the
\* exception it raises, and whether it wrote the key-cache file of the name.
ClientReturn(project) ==
    [kind |-> "project", project |-> project, exc |-> "", text |-> "", cache_written |-> TRUE]
ClientRaise(exc, text) ==
    [kind |-> "raise", project |-> NoProject, exc |-> exc, text |-> text,
     cache_written |-> FALSE]

\* Datatops.create_project(name, project_creation_secret) against a server
\* constructed with the secret: it posts {"project": name} with the secret
\* header, parses the answer as JSON, reads res["data"]["admin_key"] and
\* res["data"]["user_key"], and only then looks at res["status"].
client_create_project(db, secret, name, project_creation_secret, keys) ==
    LET r == Call(db, CreateRequest(secret, TRUE, name, project_creation_secret, keys))
        res == RouteResponse(r.t)
        out == IF res.code = 500 THEN ClientRaise("JSONDecodeError", "")
               ELSE IF res.data.json # "object" THEN ClientRaise("KeyError", "data")
               ELSE IF res.status = "success" THEN ClientReturn(res.data.array[1])
               ELSE ClientRaise("Exception", res.message)
    IN [db |-> r.db, res |-> res, out |-> out]

\* The message of an error response: its "message", or its "error" when the
\* body has only that.
ServerMessage(res) == IF res.error # "" THEN res.error ELSE res.message

\* C33 (as claimed): the client's create_project returns a Project and
\* writes the key-cache file exactly when the server answered with status
\* "success"; for every other answer it raises an exception that carries the
\* server's message, returns no Project and writes no cache file.
C33_ClientCacheOnSuccessOnly ==
    \A secret \in Secrets, name \in Names \cup {None}, header \in SecretHeaders,
       keys \in KeyDraws :
        LET c == client_create_project(DB, secret, name, header, keys) IN
        IF c.res.status = "success"
        THEN c.out.kind = "project" /\ c.out.cache_written
        ELSE /\ c.out.kind = "raise"
             /\ ~c.out.cache_written
             /\ c.res.code # 500 => c.out.text = ServerMessage(c.res)

====
